---- MODULE Spec2Model ----
(***************************************************************************)
(* Model of package lxgata: the LXCat/BOLSIG loader LoadCrossSections      *)
(* (collisionSet.go), the interpolation Collision.CrossSectionAt           *)
(* (lxgata.go) and the aggregators of type Collisions (collisionSet.go).   *)
(*                                                                         *)
(* Numbers are exact: a float64 read from the input is an integer of the   *)
(* token table NumVal, and a computed cross section is a fraction          *)
(* [n, d] with d > 0 (float64 rounding is not modelled).                   *)
(***************************************************************************)
EXTENDS Integers, Sequences, FiniteSets, TLC

VARIABLES
    pc,          \* position of LoadCrossSections
    text,        \* scanner.Text(): the fields of the current line
    eof,         \* the scanner has stopped: Scan() has returned false
    scanErr,     \* scanner.Err() is not nil: reading the input failed
    nlines,      \* number of lines the scanner has delivered
    block,       \* locals of the block being parsed
    raw,         \* every point parsed in the current data section, before filtering
    collisions,  \* var collisions []Collision
    rawTables,   \* raw[] of every block appended to collisions
    outcome,     \* "running", "ok", "error" or "panic"
    returned,    \* the Collisions value returned (<<>> is nil)
    format,      \* how the lines delivered so far read as blocks of the file format
    call,        \* the last call made on the returned Collisions
    result,      \* what that call returned, a fraction [n, d]
    threads,     \* the call each goroutine is making on the Collection
    locals       \* `var result float64` of the calls in progress

vars == <<pc, text, eof, scanErr, nlines, block, raw, collisions, rawTables, outcome,
          returned, format, call, result, threads, locals>>

----------------------------------------------------------------------------
(* Bounds of the model *)

\* lines in an input file
MaxLines == 13

\* data lines holding a point in one block
MaxPoints == 2

\* points of a Collision handed to the queries
MaxTable == 3

\* Collisions of a Collection handed to the queries
MaxCollisions == 2

\* goroutines calling the queries at the same time
MaxThreads == 2

----------------------------------------------------------------------------
(* Types and text helpers *)

ELASTIC == "ELASTIC"
EFFECTIVE == "EFFECTIVE"
EXCITATION == "EXCITATION"
ATTACHMENT == "ATTACHMENT"
IONIZATION == "IONIZATION"
ROTATION == "ROTATION"

setProcessTypes == {ELASTIC, EFFECTIVE, EXCITATION, ATTACHMENT, IONIZATION, ROTATION}

\* The numeric tokens of the model and the float64 each one denotes.
NumVal == [t \in {"-1", "0", "1", "2"} |->
             CASE t = "-1" -> 0 - 1
               [] t = "0" -> 0
               [] t = "1" -> 1
               [] t = "2" -> 2]

\* collisionSet.go:116 and 122: the types whose points are filtered
HasThreshold(collisionType) ==
    collisionType = IONIZATION \/ collisionType = EXCITATION \/ collisionType = ROTATION

\* strconv.ParseFloat(tok, 64)
ParseFloat(tok) ==
    IF tok \in DOMAIN NumVal
    THEN [err |-> FALSE, val |-> NumVal[tok]]
    ELSE [err |-> TRUE, val |-> 0]

\* A line is the sequence of its whitespace-delimited fields, joined by
\* single spaces with nothing before the first field.

\* strings.Fields(line)
Fields(line) == line

\* strings.HasPrefix(line, "-----")
HasDashPrefix(line) == Len(line) > 0 /\ line[1] = "-----"

\* first result of strings.Cut(line, " ")
CutSpecies(line) == IF Len(line) = 0 THEN "" ELSE line[1]

\* strings.Cut(tok, ":") on one field: <<found, before, after>>
CutToken(tok) ==
    IF tok = "k:" THEN <<TRUE, "k", "">> ELSE <<FALSE, tok, "">>

NonEmpty(s) == IF s = "" THEN <<>> ELSE <<s>>

RECURSIVE CutColonFrom(_, _)
\* strings.Cut(line, ":") with both sides trimmed, looking from field i on;
\* key and value are sequences of fields
CutColonFrom(line, i) ==
    IF i > Len(line) THEN [found |-> FALSE, key |-> line, val |-> <<>>]
    ELSE LET c == CutToken(line[i]) IN
         IF c[1]
         THEN [found |-> TRUE,
               key |-> SubSeq(line, 1, i - 1) \o NonEmpty(c[2]),
               val |-> NonEmpty(c[3]) \o SubSeq(line, i + 1, Len(line))]
         ELSE CutColonFrom(line, i + 1)

CutColon(line) == CutColonFrom(line, 1)

----------------------------------------------------------------------------
(* LoadCrossSections *)

\* KeepPoint filtering the points of every type
KeepPointAnyType(collisionType, threshold, energy) ==
    threshold < energy

\* KeepPoint with the comparison made inclusive
KeepPointInclusive(collisionType, threshold, energy) ==
    ~HasThreshold(collisionType) \/ threshold <= energy

\* collisionSet.go:116, the condition under which a parsed point is appended
KeepPoint(collisionType, threshold, energy) ==
    ~HasThreshold(collisionType) \/ threshold < energy

\* collisionSet.go:122, the condition under which the zero point is prepended
\* (evaluated only where data[0] exists)
NeedsZero(collisionType, data) ==
    HasThreshold(collisionType) /\ data[1].Value > 0

\* collisionSet.go:122-124
Normalize(collisionType, threshold, data) ==
    IF NeedsZero(collisionType, data)
    THEN <<[Energy |-> threshold, Value |-> 0]>> \o data
    ELSE data

\* IsHeader with ROTATION missing from the set of keywords
IsHeaderNoRotation(tokens) == tokens[1] \in setProcessTypes \ {ROTATION}

\* collisionSet.go:34
IsHeader(tokens) == tokens[1] \in setProcessTypes

\* ErrorResult handing out the blocks parsed so far
ErrorResultPartial(colls) == colls

\* the value LoadCrossSections returns next to a non-nil error
ErrorResult(colls) == <<>>

NoBlock ==
    [collisionType |-> "", species |-> "",
     massRatio |-> 0, threshold |-> 0, statWeightRatio |-> 1,
     lowerEnergy |-> 0, lowerStatWeight |-> 0,
     upperEnergy |-> 0, upperStatWeight |-> 0,
     info |-> <<>>, data |-> <<>>]

\* collisionSet.go:126-138
MakeCollision(b, data) ==
    [Type |-> b.collisionType, MassRatio |-> b.massRatio, Species |-> b.species,
     Data |-> data, Threshold |-> b.threshold,
     StatWeightRatio |-> b.statWeightRatio,
     LowerEnergy |-> b.lowerEnergy, LowerStatWeight |-> b.lowerStatWeight,
     UpperEnergy |-> b.upperEnergy, UpperStatWeight |-> b.upperStatWeight,
     Info |-> b.info]

----------------------------------------------------------------------------
(* The input files.  format follows the block layout of the file format   *)
(* over the lines delivered so far: header, species line, parameter       *)
(* line(s), metadata lines up to a separator, data lines up to a          *)
(* separator.  format.pos is the place of the next line in that layout    *)
(* and decides which lines the input may hold there; format.ok says that  *)
(* the lines so far are the beginning of a file made of well-formed       *)
(* blocks and of lines outside blocks; format.types lists the headers of  *)
(* the blocks completed so far.                                           *)

IsNumber(tok) == tok \in DOMAIN NumVal

\* lines outside blocks: the six headers, a blank line, a separator and a
\* line of commentary
TopLines ==
    {<<t>> : t \in setProcessTypes} \cup {<<>>, <<"-----">>, <<"x">>}

\* the line after a header
SpeciesLines == {<<"Ar">>, <<"N2", "x">>}

\* the line(s) after the species line
ParameterLines ==
    {<<>>, <<"1">>, <<"1", "2">>, <<"x">>, <<"1", "x">>, <<"-----">>, <<"k:", "v">>}

\* lines of a metadata section
InfoLines == {<<"k:", "v">>, <<"k:", "w">>, <<"x">>, <<"-----">>}

\* data lines that hold a point
PointLines ==
    {<<"0", "1">>, <<"1", "1">>, <<"2", "-1">>, <<"2", "0">>, <<"2", "1">>}

\* lines of a data section that holds n points already
DataLines(n) ==
    (IF n < MaxPoints THEN PointLines ELSE {})
    \cup {<<"x">>, <<"2", "x">>, <<"1">>, <<>>, <<"-----">>}

FormatStart ==
    [pos |-> "out", type |-> "", threshold |-> 0, kept |-> FALSE,
     npoints |-> 0, types |-> <<>>, ok |-> TRUE,
     info |-> <<>>, infoP |-> <<>>, infos |-> <<>>, infosP |-> <<>>]

\* f, kept as it is when the line just read is good and ill-formed otherwise
Judge(f, good) ==
    IF f.ok /\ good
    THEN f
    ELSE [f EXCEPT !.ok = FALSE, !.types = <<>>, !.kept = FALSE, !.threshold = 0]

\* the entries info with the entry of one more line of the file: the text
\* before its first colon and the text after it, the later line winning
WithEntry(info, line) ==
    LET c == CutColon(line) IN
    IF HasDashPrefix(line) \/ ~c.found
    THEN info
    ELSE [k \in DOMAIN info \cup {c.key} |->
            IF k = c.key THEN c.val ELSE info[k]]

HasNumber(line) == Len(line) >= 1 /\ IsNumber(line[1])

IsPoint(line) == Len(line) >= 2 /\ IsNumber(line[1]) /\ IsNumber(line[2])

FormatParameters(f, line) ==
    CASE f.type \in {ELASTIC, EFFECTIVE} ->
           Judge([f EXCEPT !.pos = "meta"],
                 HasNumber(line))
      [] f.type = IONIZATION ->
           Judge([f EXCEPT !.pos = "meta",
                           !.threshold = IF HasNumber(line)
                                         THEN NumVal[line[1]] ELSE 0],
                 HasNumber(line))
      [] f.type = EXCITATION ->
           Judge([f EXCEPT !.pos = "meta",
                           !.threshold = IF HasNumber(line)
                                         THEN NumVal[line[1]] ELSE 0],
                 /\ HasNumber(line)
                 /\ (Len(line) >= 2 => IsNumber(line[2])))
      [] f.type = ROTATION ->
           Judge([f EXCEPT !.pos = "param2"], IsPoint(line))
      [] OTHER ->
           Judge([f EXCEPT !.pos = IF HasDashPrefix(line) THEN "data" ELSE "meta"],
                 ~HasDashPrefix(line))

FormatData(f, line) ==
    IF HasDashPrefix(line)
    THEN Judge([f EXCEPT !.pos = "out", !.type = "", !.threshold = 0,
                         !.kept = FALSE, !.npoints = 0,
                         !.types = Append(@, f.type),
                         !.info = <<>>, !.infoP = <<>>,
                         !.infos = Append(@, f.info),
                         !.infosP = Append(@, f.infoP)],
               f.kept)
    ELSE Judge([f EXCEPT !.npoints = IF IsPoint(line) THEN @ + 1 ELSE @,
                         !.kept = \/ @
                                  \/ /\ IsPoint(line)
                                     /\ \/ ~HasThreshold(f.type)
                                        \/ NumVal[line[1]] > f.threshold],
               IsPoint(line))

\* the layout after one more line
FormatStep(f, line) ==
    CASE f.pos = "out" ->
           IF Len(line) >= 1 /\ line[1] \in setProcessTypes
           THEN [f EXCEPT !.pos = "species", !.type = line[1]]
           ELSE f
      [] f.pos = "species" -> [f EXCEPT !.pos = "param"]
      [] f.pos = "param" ->
           IF f.type = ROTATION
           THEN FormatParameters(f, line)
           ELSE [FormatParameters(f, line) EXCEPT !.infoP = WithEntry(@, line)]
      [] f.pos = "param2" ->
           [Judge([f EXCEPT !.pos = "meta"], IsPoint(line))
               EXCEPT !.infoP = WithEntry(@, line)]
      [] f.pos = "meta" ->
           IF HasDashPrefix(line)
           THEN [f EXCEPT !.pos = "data"]
           ELSE [f EXCEPT !.info = WithEntry(@, line),
                          !.infoP = WithEntry(@, line)]
      [] OTHER -> FormatData(f, line)

\* the layout at the end of the input
FormatEnd(f) == Judge(f, f.pos = "out")

\* the lines the input may hold next
LinesAt(f) ==
    CASE f.pos = "out" -> TopLines
      [] f.pos = "species" -> SpeciesLines
      [] f.pos \in {"param", "param2"} -> ParameterLines
      [] f.pos = "meta" -> InfoLines
      [] OTHER -> DataLines(f.npoints)

----------------------------------------------------------------------------
\* scanner.Scan(): ok is its result.  It returns false at the end of the
\* input and when reading fails; Text() is empty from then on.
Scan(ok) ==
    \/ /\ ok
       /\ ~eof
       /\ nlines < MaxLines
       /\ \E ln \in LinesAt(format) : text' = ln
       /\ nlines' = nlines + 1
       /\ eof' = eof
       /\ scanErr' = scanErr
       /\ format' = FormatStep(format, text')
    \/ /\ ~ok
       /\ eof' = TRUE
       /\ IF eof THEN scanErr' = scanErr ELSE scanErr' \in BOOLEAN
       /\ text' = <<>>
       /\ nlines' = nlines
       /\ format' = FormatEnd(format)

NoScan == UNCHANGED <<text, eof, scanErr, nlines, format>>

Panic ==
    /\ outcome' = "panic"
    /\ UNCHANGED <<pc, block, raw, collisions, rawTables, returned, call, result, threads, locals>>

ReturnError ==
    /\ outcome' = "error"
    /\ returned' = ErrorResult(collisions)
    /\ UNCHANGED <<pc, block, raw, collisions, rawTables, call, result, threads, locals>>

NoCall == [op |-> "none", index |-> 0, t |-> "", energy |-> 0, l |-> 0, r |-> 0]

Zero == [n |-> 0, d |-> 1]

Threads == 1..MaxThreads

NoThread ==
    [pc |-> "idle", op |-> "none", index |-> 0, t |-> "", energy |-> 0,
     i |-> 0, ret |-> Zero, mixed |-> FALSE]

NoThreads == [th \in Threads |-> NoThread]

NoLocals == [th \in Threads |-> Zero]

LoadInit ==
    /\ pc = "loop"
    /\ text = <<>>
    /\ eof = FALSE
    /\ scanErr = FALSE
    /\ nlines = 0
    /\ block = NoBlock
    /\ raw = <<>>
    /\ collisions = <<>>
    /\ rawTables = <<>>
    /\ outcome = "running"
    /\ returned = <<>>
    /\ format = FormatStart
    /\ call = NoCall
    /\ result = Zero
    /\ threads = NoThreads
    /\ locals = NoLocals

\* collisionSet.go:27-36 and 141: the outer loop up to a recognized header
ScanLine ==
    /\ outcome = "running"
    /\ pc = "loop"
    /\ \E ok \in BOOLEAN :
         /\ Scan(ok)
         /\ IF ~ok
            THEN /\ outcome' = "ok"
                 /\ returned' = collisions
                 /\ UNCHANGED <<pc, block>>
            ELSE LET tokens == Fields(text') IN
                 /\ UNCHANGED <<outcome, returned>>
                 /\ IF Len(tokens) # 0 /\ IsHeader(tokens)
                    THEN /\ pc' = "species"
                         /\ block' = [NoBlock EXCEPT !.collisionType = tokens[1]]
                    ELSE UNCHANGED <<pc, block>>
    /\ UNCHANGED <<raw, collisions, rawTables, call, result, threads, locals>>

\* collisionSet.go:37-38
ReadSpecies ==
    /\ outcome = "running"
    /\ pc = "species"
    /\ \E ok \in BOOLEAN : Scan(ok)
    /\ block' = [block EXCEPT !.species = CutSpecies(text')]
    /\ pc' = "params"
    /\ UNCHANGED <<raw, collisions, rawTables, outcome, returned, call, result, threads, locals>>

\* collisionSet.go:40-81: the parameter line (the first one of ROTATION)
ReadParameters ==
    /\ outcome = "running"
    /\ pc = "params"
    /\ \E ok \in BOOLEAN : Scan(ok)
    /\ LET parameters == Fields(text')
           t == block.collisionType
           need == CASE t = ATTACHMENT -> 0
                     [] t = ROTATION -> 2
                     [] OTHER -> 1
           p1 == ParseFloat(parameters[1])
           p2 == ParseFloat(parameters[2])
       IN
       IF t = ATTACHMENT
       THEN /\ pc' = "meta"
            /\ UNCHANGED <<block, raw, collisions, rawTables, outcome, returned, call, result, threads, locals>>
       ELSE IF Len(parameters) < 1 THEN Panic
       ELSE IF p1.err THEN ReturnError
       ELSE IF t \in {ELASTIC, EFFECTIVE}
       THEN /\ block' = [block EXCEPT !.massRatio = p1.val]
            /\ pc' = "meta"
            /\ UNCHANGED <<raw, collisions, rawTables, outcome, returned, call, result, threads, locals>>
       ELSE IF t = IONIZATION
       THEN /\ block' = [block EXCEPT !.threshold = p1.val]
            /\ pc' = "meta"
            /\ UNCHANGED <<raw, collisions, rawTables, outcome, returned, call, result, threads, locals>>
       ELSE IF t = EXCITATION
       THEN IF Len(parameters) > 1
            THEN IF p2.err THEN ReturnError
                 ELSE /\ block' = [block EXCEPT !.threshold = p1.val,
                                                !.statWeightRatio = p2.val]
                      /\ pc' = "meta"
                      /\ UNCHANGED <<raw, collisions, rawTables, outcome, returned, call, result, threads, locals>>
            ELSE /\ block' = [block EXCEPT !.threshold = p1.val]
                 /\ pc' = "meta"
                 /\ UNCHANGED <<raw, collisions, rawTables, outcome, returned, call, result, threads, locals>>
       ELSE \* ROTATION
            IF Len(parameters) < 2 THEN Panic
            ELSE IF p2.err THEN ReturnError
            ELSE /\ block' = [block EXCEPT !.lowerEnergy = p1.val,
                                           !.lowerStatWeight = p2.val]
                 /\ pc' = "params2"
                 /\ UNCHANGED <<raw, collisions, rawTables, outcome, returned, call, result, threads, locals>>

\* collisionSet.go:82-91: the second parameter line of ROTATION
ReadUpperParameters ==
    /\ outcome = "running"
    /\ pc = "params2"
    /\ \E ok \in BOOLEAN : Scan(ok)
    /\ LET parameters == Fields(text')
           p1 == ParseFloat(parameters[1])
           p2 == ParseFloat(parameters[2])
       IN
       IF Len(parameters) < 1 THEN Panic
       ELSE IF p1.err THEN ReturnError
       ELSE IF Len(parameters) < 2 THEN Panic
       ELSE IF p2.err THEN ReturnError
       ELSE /\ block' = [block EXCEPT !.upperEnergy = p1.val,
                                      !.upperStatWeight = p2.val]
            /\ pc' = "meta"
            /\ UNCHANGED <<raw, collisions, rawTables, outcome, returned, call, result, threads, locals>>

\* info[key] = val keeping the entry info has for key already
SetInfoOnce(info, key, val) ==
    [k \in DOMAIN info \cup {key} |-> IF k \in DOMAIN info THEN info[k] ELSE val]

\* collisionSet.go:98: info[key] = val
SetInfo(info, key, val) ==
    [k \in DOMAIN info \cup {key} |-> IF k = key THEN val ELSE info[k]]

\* collisionSet.go:95-102: one test of the metadata loop, starting at the
\* line the scanner is on
ReadInfo ==
    /\ outcome = "running"
    /\ pc = "meta"
    /\ IF HasDashPrefix(text)
       THEN /\ \E ok \in BOOLEAN : Scan(ok)
            /\ pc' = "data"
            /\ UNCHANGED block
       ELSE LET c == CutColon(text) IN
            /\ block' = IF c.found
                        THEN [block EXCEPT !.info = SetInfo(@, c.key, c.val)]
                        ELSE block
            /\ \E ok \in BOOLEAN : Scan(ok)
            /\ pc' = pc
    /\ UNCHANGED <<raw, collisions, rawTables, outcome, returned, call, result, threads, locals>>

\* collisionSet.go:105-120: one data line
ReadPoint ==
    /\ outcome = "running"
    /\ pc = "data"
    /\ ~HasDashPrefix(text)
    /\ LET crossSectionPoint == Fields(text)
           energy == ParseFloat(crossSectionPoint[1])
           crossSection == ParseFloat(crossSectionPoint[2])
           point == [Energy |-> energy.val, Value |-> crossSection.val]
       IN
       IF Len(crossSectionPoint) < 1 THEN Panic /\ NoScan
       ELSE IF energy.err THEN ReturnError /\ NoScan
       ELSE IF Len(crossSectionPoint) < 2 THEN Panic /\ NoScan
       ELSE IF crossSection.err THEN ReturnError /\ NoScan
       ELSE /\ block' = IF KeepPoint(block.collisionType, block.threshold, energy.val)
                        THEN [block EXCEPT !.data = Append(@, point)]
                        ELSE block
            /\ raw' = Append(raw, point)
            /\ \E ok \in BOOLEAN : Scan(ok)
            /\ UNCHANGED <<pc, collisions, rawTables, outcome, returned, call, result, threads, locals>>

\* collisionSet.go:105 and 122-138: the separator that ends the data section
EndBlock ==
    /\ outcome = "running"
    /\ pc = "data"
    /\ HasDashPrefix(text)
    /\ NoScan
    /\ IF HasThreshold(block.collisionType) /\ Len(block.data) = 0
       THEN Panic
       ELSE /\ collisions' = Append(collisions,
                 MakeCollision(block,
                     Normalize(block.collisionType, block.threshold, block.data)))
            /\ rawTables' = Append(rawTables, raw)
            /\ raw' = <<>>
            /\ block' = NoBlock
            /\ pc' = "loop"
            /\ UNCHANGED <<outcome, returned, call, result, threads, locals>>

LoadNext ==
    \/ ScanLine
    \/ ReadSpecies
    \/ ReadParameters
    \/ ReadUpperParameters
    \/ ReadInfo
    \/ ReadPoint
    \/ EndBlock

Spec == LoadInit /\ [][LoadNext]_vars

\* the load runs in one goroutine that is never suspended for ever: as long
\* as a step of it changes the state, a step is taken
SpecFair == LoadInit /\ [][LoadNext]_vars /\ WF_vars(LoadNext)

----------------------------------------------------------------------------
(* Collision.CrossSectionAt and the aggregators of Collisions *)

\* fractions with a positive denominator
Frac(n, d) == [n |-> n, d |-> d]

FracAdd(a, b) == Frac(a.n * b.d + b.n * a.d, a.d * b.d)

FracEq(a, b) == a.n * b.d = b.n * a.d

FracLeq(a, b) == a.n * b.d <= b.n * a.d

RECURSIVE SearchInclusive(_, _, _, _)
\* Search with the comparison made inclusive
SearchInclusive(Data, energy, l, r) ==
    IF l + 1 < r
    THEN LET c == (l + r) \div 2 IN
         IF energy <= Data[c + 1].Energy
         THEN SearchInclusive(Data, energy, l, c)
         ELSE SearchInclusive(Data, energy, c, r)
    ELSE <<l, r>>

RECURSIVE Search(_, _, _, _)
\* lxgata.go:207-215: the bisection, from the bounds l and r on.  Indices
\* are Go's: Data[c] of the source is Data[c + 1] here.
Search(Data, energy, l, r) ==
    IF l + 1 < r
    THEN LET c == (l + r) \div 2 IN
         IF energy < Data[c + 1].Energy
         THEN Search(Data, energy, l, c)
         ELSE Search(Data, energy, c, r)
    ELSE <<l, r>>

\* Interpolate returning the first value at either end of the table
InterpolateFirst(Data, energy, l, r) ==
    IF l = 0 \/ r = Len(Data)
    THEN Frac(Data[1].Value, 1)
    ELSE LET dE == Data[r + 1].Energy - Data[l + 1].Energy IN
         Frac(Data[l + 1].Value * dE
                + (Data[r + 1].Value - Data[l + 1].Value) * (energy - Data[l + 1].Energy),
              dE)

\* lxgata.go:216-221: the value returned for the bounds l and r
Interpolate(Data, energy, l, r) ==
    IF l = 0 \/ r = Len(Data)
    THEN Frac(Data[l + 1].Value, 1)
    ELSE LET dE == Data[r + 1].Energy - Data[l + 1].Energy IN
         Frac(Data[l + 1].Value * dE
                + (Data[r + 1].Value - Data[l + 1].Value) * (energy - Data[l + 1].Energy),
              dE)

\* lxgata.go:206-222
CrossSectionAt(p, energy) ==
    LET lr == Search(p.Data, energy, 0, Len(p.Data)) IN
    Interpolate(p.Data, energy, lr[1], lr[2])

\* TotalCrossSectionAt assigning to result where the source adds to it
TotalCrossSectionAtLast(colls, energy) ==
    IF colls = <<>> THEN Zero ELSE CrossSectionAt(colls[Len(colls)], energy)

RECURSIVE TotalCrossSectionAt(_, _)
\* collisionSet.go:145-151
TotalCrossSectionAt(colls, energy) ==
    IF colls = <<>> THEN Zero
    ELSE FracAdd(TotalCrossSectionAt(SubSeq(colls, 1, Len(colls) - 1), energy),
                 CrossSectionAt(colls[Len(colls)], energy))

RECURSIVE TotalCrossSectionOfOtherKindsAt(_, _, _)
\* TotalCrossSectionOfKindAt with the test of the type negated
TotalCrossSectionOfOtherKindsAt(colls, t, energy) ==
    IF colls = <<>> THEN Zero
    ELSE LET before == TotalCrossSectionOfOtherKindsAt(SubSeq(colls, 1, Len(colls) - 1), t, energy)
             collision == colls[Len(colls)]
         IN IF collision.Type # t
            THEN FracAdd(before, CrossSectionAt(collision, energy))
            ELSE before

RECURSIVE TotalCrossSectionOfKindAt(_, _, _)
\* collisionSet.go:154-162
TotalCrossSectionOfKindAt(colls, t, energy) ==
    IF colls = <<>> THEN Zero
    ELSE LET before == TotalCrossSectionOfKindAt(SubSeq(colls, 1, Len(colls) - 1), t, energy)
             collision == colls[Len(colls)]
         IN IF collision.Type = t
            THEN FracAdd(before, CrossSectionAt(collision, energy))
            ELSE before

RECURSIVE MinValue(_, _)
\* MaxValue with the comparison turned round
MinValue(Data, max) ==
    IF Data = <<>> THEN max
    ELSE MinValue(Tail(Data), IF max > Head(Data).Value THEN Head(Data).Value ELSE max)

RECURSIVE MaxValue(_, _)
\* collisionSet.go:170-174: the inner loop, from the running maximum max on
MaxValue(Data, max) ==
    IF Data = <<>> THEN max
    ELSE MaxValue(Tail(Data), IF max < Head(Data).Value THEN Head(Data).Value ELSE max)

RECURSIVE SurplusCrossSection(_)
\* collisionSet.go:166-178
SurplusCrossSection(colls) ==
    IF colls = <<>> THEN Zero
    ELSE FracAdd(SurplusCrossSection(SubSeq(colls, 1, Len(colls) - 1)),
                 Frac(MaxValue(colls[Len(colls)].Data, 0), 1))

\* The Collections handed to the queries: one Collision with any table of
\* at most MaxTable points, or up to MaxCollisions Collisions whose tables
\* have strictly increasing energies.
Energies == {2 * k : k \in 0..(MaxTable - 1)}

Values == {0 - 1, 0, 2}

SomeValues == {0 - 1, 2}

QueryEnergies == (0 - 1)..(2 * MaxTable - 1)

QueryTypes == {ELASTIC, IONIZATION}

Points == [Energy : Energies, Value : Values]

Tables == UNION {[1..n -> Points] : n \in 1..MaxTable}

StrictlyIncreasing(Data) ==
    \A j \in 1..(Len(Data) - 1) : Data[j].Energy < Data[j + 1].Energy

SortedTables ==
    {d \in Tables : /\ StrictlyIncreasing(d)
                    /\ \A j \in 1..Len(d) : d[j].Value \in SomeValues}

CollisionOf(t, Data) ==
    MakeCollision([NoBlock EXCEPT !.collisionType = t], Data)

QueryCollections ==
    {<<CollisionOf(t, d)>> : t \in QueryTypes, d \in Tables}
    \cup UNION {[1..n -> {CollisionOf(t, d) : t \in QueryTypes, d \in SortedTables}] :
                    n \in 0..MaxCollisions}

QueryInit ==
    /\ pc = "loop"
    /\ text = <<>>
    /\ eof = TRUE
    /\ scanErr = FALSE
    /\ nlines = 0
    /\ block = NoBlock
    /\ raw = <<>>
    /\ returned \in QueryCollections
    /\ collisions = returned
    /\ rawTables = <<>>
    /\ outcome = "ok"
    /\ format = FormatStart
    /\ call = NoCall
    /\ result = Zero
    /\ threads = NoThreads
    /\ locals = NoLocals

Loaded == <<pc, text, eof, scanErr, nlines, block, raw, collisions, rawTables, outcome,
            returned, format>>

CallCrossSectionAt ==
    /\ outcome = "ok"
    /\ call = NoCall
    /\ \E i \in 1..Len(returned), energy \in QueryEnergies :
         LET lr == Search(returned[i].Data, energy, 0, Len(returned[i].Data)) IN
         /\ call' = [op |-> "CrossSectionAt", index |-> i, t |-> "",
                     energy |-> energy, l |-> lr[1], r |-> lr[2]]
         /\ result' = CrossSectionAt(returned[i], energy)
    /\ UNCHANGED <<Loaded, threads, locals>>

CallTotalCrossSectionAt ==
    /\ outcome = "ok"
    /\ call = NoCall
    /\ \E energy \in QueryEnergies :
         /\ call' = [NoCall EXCEPT !.op = "TotalCrossSectionAt", !.energy = energy]
         /\ result' = TotalCrossSectionAt(returned, energy)
    /\ UNCHANGED <<Loaded, threads, locals>>

CallTotalCrossSectionOfKindAt ==
    /\ outcome = "ok"
    /\ call = NoCall
    /\ \E t \in QueryTypes, energy \in QueryEnergies :
         /\ call' = [NoCall EXCEPT !.op = "TotalCrossSectionOfKindAt",
                                   !.t = t, !.energy = energy]
         /\ result' = TotalCrossSectionOfKindAt(returned, t, energy)
    /\ UNCHANGED <<Loaded, threads, locals>>

CallSurplusCrossSection ==
    /\ outcome = "ok"
    /\ call = NoCall
    /\ call' = [NoCall EXCEPT !.op = "SurplusCrossSection"]
    /\ result' = SurplusCrossSection(returned)
    /\ UNCHANGED <<Loaded, threads, locals>>

QueryNext ==
    \/ CallCrossSectionAt
    \/ CallTotalCrossSectionAt
    \/ CallTotalCrossSectionOfKindAt
    \/ CallSurplusCrossSection

SpecQuery == QueryInit /\ [][QueryNext]_vars

----------------------------------------------------------------------------
(* Several goroutines calling the queries on one Collection *)

\* one variable `result` shared by every call
ResultCellShared(th) == 1

\* collisionSet.go:146, 155 and 167: `var result float64` is a local of the
\* call, so every call in progress has its own
ResultCell(th) == th

ThreadEnergies == {1, 3}

ThreadTables == {d \in SortedTables : Len(d) = 2}

ThreadCollections ==
    [1..MaxCollisions -> {CollisionOf(t, d) : t \in QueryTypes, d \in ThreadTables}]

\* the calls a goroutine may make on the Collection colls
ThreadCalls(colls) ==
    {[NoThread EXCEPT !.pc = "loop", !.op = "CrossSectionAt",
                      !.index = i, !.energy = e] :
        i \in 1..Len(colls), e \in ThreadEnergies}
    \cup {[NoThread EXCEPT !.pc = "loop", !.op = "TotalCrossSectionAt",
                           !.energy = e] : e \in ThreadEnergies}
    \cup {[NoThread EXCEPT !.pc = "loop", !.op = "TotalCrossSectionOfKindAt",
                           !.t = t, !.energy = e] :
            t \in QueryTypes, e \in ThreadEnergies}
    \cup {[NoThread EXCEPT !.pc = "loop", !.op = "SurplusCrossSection"]}

ThreadInit ==
    /\ pc = "loop"
    /\ text = <<>>
    /\ eof = TRUE
    /\ scanErr = FALSE
    /\ nlines = 0
    /\ block = NoBlock
    /\ raw = <<>>
    /\ returned \in ThreadCollections
    /\ collisions = returned
    /\ rawTables = <<>>
    /\ outcome = "ok"
    /\ format = FormatStart
    /\ call = NoCall
    /\ result = Zero
    /\ threads = NoThreads
    /\ locals = NoLocals

\* goroutine th enters a query: collisionSet.go:146, 155, 167 (result
\* starts at 0) or lxgata.go:206
Begin(th) ==
    /\ outcome = "ok"
    /\ threads[th].pc = "idle"
    /\ \E c \in ThreadCalls(returned) : threads' = [threads EXCEPT ![th] = c]
    /\ locals' = [locals EXCEPT ![ResultCell(th)] = Zero]
    /\ UNCHANGED <<Loaded, call, result>>

\* what the Collision collision adds to result in the call c:
\* collisionSet.go:148, 157-159 and 168-175
Contribution(c, collision) ==
    CASE c.op = "TotalCrossSectionAt" -> CrossSectionAt(collision, c.energy)
      [] c.op = "TotalCrossSectionOfKindAt" ->
           IF collision.Type = c.t
           THEN CrossSectionAt(collision, c.energy)
           ELSE Zero
      [] OTHER -> Frac(MaxValue(collision.Data, 0), 1)

\* goroutine th takes one step of its call: the whole of CrossSectionAt
\* (lxgata.go:206-222), one iteration of the loop over the Collisions
\* (collisionSet.go:147-149, 156-160, 168-176) or the return of result
\* (collisionSet.go:150, 161, 177)
Step(th) ==
    LET c == threads[th]
        cell == ResultCell(th)
        mixed == c.mixed \/ \E o \in Threads \ {th} : threads[o].pc = "loop"
    IN
    /\ outcome = "ok"
    /\ c.pc = "loop"
    /\ IF c.op = "CrossSectionAt"
       THEN /\ threads' = [threads EXCEPT ![th] =
                  [c EXCEPT !.pc = "done", !.mixed = mixed,
                            !.ret = CrossSectionAt(returned[c.index], c.energy)]]
            /\ UNCHANGED locals
       ELSE IF c.i < Len(returned)
       THEN /\ locals' = [locals EXCEPT ![cell] =
                  FracAdd(@, Contribution(c, returned[c.i + 1]))]
            /\ threads' = [threads EXCEPT ![th] =
                  [c EXCEPT !.i = @ + 1, !.mixed = mixed]]
       ELSE /\ threads' = [threads EXCEPT ![th] =
                  [c EXCEPT !.pc = "done", !.mixed = mixed, !.ret = locals[cell]]]
            /\ UNCHANGED locals
    /\ UNCHANGED <<Loaded, call, result>>

ThreadNext == \E th \in Threads : Begin(th) \/ Step(th)

SpecThreads == ThreadInit /\ [][ThreadNext]_vars

----------------------------------------------------------------------------
(* Properties of the queries *)

\* the Data of the Collision the last CrossSectionAt was called on
CalledData == returned[call.index].Data

\* the value of the line through points l and l + 1 of Data at energy
Lerp(Data, l, energy) ==
    Frac(Data[l].Value * (Data[l + 1].Energy - Data[l].Energy)
           + (Data[l + 1].Value - Data[l].Value) * (energy - Data[l].Energy),
         Data[l + 1].Energy - Data[l].Energy)

\* C1: on a table of at least 2 points with strictly increasing energies
\* and for an energy strictly between the first and the last one,
\* CrossSectionAt is the linear interpolation between the two adjacent
\* points around the energy, for every adjacent pair of the table.
C1_InterpolatesEveryInterval ==
    (/\ call.op = "CrossSectionAt"
     /\ Len(CalledData) >= 2
     /\ StrictlyIncreasing(CalledData)
     /\ CalledData[1].Energy < call.energy
     /\ call.energy < CalledData[Len(CalledData)].Energy)
    => \E l \in 1..(Len(CalledData) - 1) :
          /\ CalledData[l].Energy <= call.energy
          /\ call.energy < CalledData[l + 1].Energy
          /\ FracEq(result, Lerp(CalledData, l, call.energy))

\* C2: on a non-empty table with increasing energies, CrossSectionAt is
\* exactly the first value for an energy at or below the first energy and
\* exactly the last value for an energy at or above the last energy.
C2_ConstantExtrapolation ==
    (call.op = "CrossSectionAt" /\ StrictlyIncreasing(CalledData)) =>
        /\ call.energy <= CalledData[1].Energy
             => result = Frac(CalledData[1].Value, 1)
        /\ call.energy >= CalledData[Len(CalledData)].Energy
             => result = Frac(CalledData[Len(CalledData)].Value, 1)

C2_Witness ==
    /\ call.op = "CrossSectionAt"
    /\ StrictlyIncreasing(CalledData)
    /\ Len(CalledData) = 3
    /\ call.energy > CalledData[3].Energy
    /\ CalledData[3].Value # CalledData[1].Value
    /\ CalledData[3].Value # CalledData[2].Value

\* C19: on any non-empty Data, sorted or not, the bisection of
\* CrossSectionAt ends with r = l + 1 and 0 <= l < len(Data); where it
\* interpolates (l > 0 and r < len(Data)), Data[l].Energy <= energy <
\* Data[r].Energy, so the indices are in range, the divisor is positive and
\* the result lies between Data[l].Value and Data[r].Value.
C19_BisectionBounds ==
    call.op = "CrossSectionAt" =>
        LET Data == CalledData
            l == call.l
            r == call.r
        IN /\ r = l + 1
           /\ 0 <= l
           /\ l < Len(Data)
           /\ (l > 0 /\ r < Len(Data)) =>
                LET lo == Data[l + 1]
                    hi == Data[r + 1]
                IN /\ lo.Energy <= call.energy
                   /\ call.energy < hi.Energy
                   /\ hi.Energy - lo.Energy > 0
                   /\ \/ /\ FracLeq(Frac(lo.Value, 1), result)
                         /\ FracLeq(result, Frac(hi.Value, 1))
                      \/ /\ FracLeq(Frac(hi.Value, 1), result)
                         /\ FracLeq(result, Frac(lo.Value, 1))

C19_Witness ==
    /\ call.op = "CrossSectionAt"
    /\ call.l > 0
    /\ call.r < Len(CalledData)
    /\ CalledData[1].Energy >= CalledData[2].Energy
    /\ call.energy > CalledData[call.l + 1].Energy
    /\ CalledData[call.l + 1].Value # CalledData[call.r + 1].Value

\* what the call c returns when no other call is in progress
Alone(c) ==
    CASE c.op = "CrossSectionAt" -> CrossSectionAt(returned[c.index], c.energy)
      [] c.op = "TotalCrossSectionAt" -> TotalCrossSectionAt(returned, c.energy)
      [] c.op = "TotalCrossSectionOfKindAt" ->
           TotalCrossSectionOfKindAt(returned, c.t, c.energy)
      [] OTHER -> SurplusCrossSection(returned)

SameCall(c, d) ==
    /\ c.op = d.op
    /\ c.index = d.index
    /\ c.t = d.t
    /\ c.energy = d.energy

\* C20: the four queries leave the Collection and the Data of its
\* Collisions unchanged, so a call interleaved with the calls of other
\* goroutines returns what it returns alone, and calls with the same
\* arguments return the same.
C20_CallsDoNotInterfere ==
    /\ [][returned' = returned]_vars
    /\ [](\A th \in Threads :
            threads[th].pc = "done" =>
                /\ FracEq(threads[th].ret, Alone(threads[th]))
                /\ \A o \in Threads :
                     (threads[o].pc = "done" /\ SameCall(threads[o], threads[th]))
                        => FracEq(threads[o].ret, threads[th].ret))

C20_Witness ==
    /\ \A th \in Threads :
         /\ threads[th].pc = "done"
         /\ threads[th].mixed
         /\ threads[th].op # "CrossSectionAt"
         /\ threads[th].ret.n # 0
    /\ ~FracEq(threads[1].ret, threads[2].ret)

RECURSIVE SumCrossSections(_, _)
\* the sum of CrossSectionAt(energy) over the Collisions colls
SumCrossSections(colls, energy) ==
    IF colls = <<>> THEN Zero
    ELSE FracAdd(CrossSectionAt(Head(colls), energy),
                 SumCrossSections(Tail(colls), energy))

\* C12: TotalCrossSectionAt(e) is the sum of CrossSectionAt(e) over every
\* Collision of the Collection, 0 for an empty one.
C12_TotalIsSum ==
    call.op = "TotalCrossSectionAt" =>
        /\ FracEq(result, SumCrossSections(returned, call.energy))
        /\ returned = <<>> => result = Zero

C12_Witness ==
    /\ call.op = "TotalCrossSectionAt"
    /\ Len(returned) = 2
    /\ CrossSectionAt(returned[1], call.energy).n > 0
    /\ CrossSectionAt(returned[2], call.energy).n < 0
    /\ result.n # 0

OfKind(colls, t) == SelectSeq(colls, LAMBDA c : c.Type = t)

\* the sum of TotalCrossSectionOfKindAt(t, energy) over the six types
SumOverKinds(colls, energy) ==
    FracAdd(TotalCrossSectionOfKindAt(colls, ELASTIC, energy),
    FracAdd(TotalCrossSectionOfKindAt(colls, EFFECTIVE, energy),
    FracAdd(TotalCrossSectionOfKindAt(colls, EXCITATION, energy),
    FracAdd(TotalCrossSectionOfKindAt(colls, ATTACHMENT, energy),
    FracAdd(TotalCrossSectionOfKindAt(colls, IONIZATION, energy),
            TotalCrossSectionOfKindAt(colls, ROTATION, energy))))))

\* C13: TotalCrossSectionOfKindAt(t, e) is the sum of CrossSectionAt(e) over
\* the Collisions of type t, 0 when there is none; and its sum over the six
\* types is TotalCrossSectionAt(e).
C13_OfKindIsSumOfKind ==
    call.op = "TotalCrossSectionOfKindAt" =>
        /\ FracEq(result, SumCrossSections(OfKind(returned, call.t), call.energy))
        /\ OfKind(returned, call.t) = <<>> => result = Zero
        /\ FracEq(SumOverKinds(returned, call.energy),
                  TotalCrossSectionAt(returned, call.energy))

C13_Witness ==
    /\ call.op = "TotalCrossSectionOfKindAt"
    /\ Len(returned) = 2
    /\ returned[1].Type = call.t
    /\ returned[2].Type # call.t
    /\ result.n # 0
    /\ CrossSectionAt(returned[2], call.energy).n # 0

\* the largest Value of a non-empty table
LargestValue(Data) ==
    CHOOSE v \in {Data[j].Value : j \in 1..Len(Data)} :
        \A j \in 1..Len(Data) : Data[j].Value <= v

RECURSIVE SumOfLargest(_)
SumOfLargest(colls) ==
    IF colls = <<>> THEN 0
    ELSE LargestValue(Head(colls).Data) + SumOfLargest(Tail(colls))

\* C14: SurplusCrossSection() is the sum, over the Collisions, of the
\* largest Value of the Collision's Data.
C14_SurplusIsSumOfMaxima ==
    call.op = "SurplusCrossSection" =>
        FracEq(result, Frac(SumOfLargest(returned), 1))

\* C10: the surplus cross section of a Collection whose Collisions have
\* non-empty Data is at least its total cross section at any energy.
C10_SurplusBoundsTotal ==
    (/\ call.op = "TotalCrossSectionAt"
     /\ \A i \in 1..Len(returned) : Len(returned[i].Data) > 0)
    => FracLeq(result, SurplusCrossSection(returned))

C10_Witness ==
    /\ call.op = "TotalCrossSectionAt"
    /\ Len(returned) = 2
    /\ \A i \in 1..2 :
          /\ Len(returned[i].Data) = 3
          /\ returned[i].Data[2].Energy < call.energy
          /\ call.energy < returned[i].Data[3].Energy
          /\ returned[i].Data[2].Value # returned[i].Data[3].Value
    /\ result.n > 0
    /\ FracEq(result, SurplusCrossSection(returned)) = FALSE

----------------------------------------------------------------------------
(* Properties of LoadCrossSections *)

Finished == outcome # "running"

\* C3: in a Collection returned without error, every IONIZATION, EXCITATION
\* or ROTATION Collision has Data[0].Value = 0.
C3_ZeroFloor ==
    outcome = "ok" =>
        \A i \in 1..Len(returned) :
            HasThreshold(returned[i].Type) => returned[i].Data[1].Value = 0

\* C4: when the input ends inside a block (after its header, before the
\* separator that ends its data section), the load ends with an error and
\* no Collection.
Truncated == eof /\ pc # "loop"

C4_TruncatedBlockIsError ==
    (Finished /\ Truncated) => (outcome = "error" /\ returned = <<>>)

\* C5: when the data section of an IONIZATION, EXCITATION or ROTATION block
\* ends and none of its points has energy above the threshold, the load
\* ends with an error and no Collection.
AllFilteredOut ==
    /\ pc = "data"
    /\ HasDashPrefix(text)
    /\ HasThreshold(block.collisionType)
    /\ \A j \in 1..Len(raw) : raw[j].Energy <= block.threshold

C5_EmptyTableIsError ==
    (Finished /\ AllFilteredOut) => (outcome = "error" /\ returned = <<>>)

\* the number of fields of the line under the scanner that the parser reads
\* as numbers, where it stopped
FieldsReadAsNumbers ==
    CASE pc = "params" /\ block.collisionType \in {ELASTIC, EFFECTIVE, IONIZATION} -> 1
      [] pc = "params" /\ block.collisionType \in {EXCITATION, ROTATION} -> 2
      [] pc = "params2" -> 2
      [] pc = "data" /\ ~HasDashPrefix(text) -> 2
      [] OTHER -> 0

MalformedNumber ==
    \E i \in 1..FieldsReadAsNumbers :
        /\ i <= Len(text)
        /\ ~IsNumber(text[i])

\* C6: a field read as a number that is not one ends the load with an error
\* and a nil Collection, whatever was parsed before; and an error never
\* comes with a Collection.
C6_MalformedNumberIsError ==
    /\ (Finished /\ MalformedNumber) => (outcome = "error" /\ returned = <<>>)
    /\ outcome = "error" => returned = <<>>
    /\ outcome = "ok" => returned = collisions

C6_Witness ==
    /\ outcome = "error"
    /\ MalformedNumber
    /\ pc = "data"
    /\ Len(collisions) >= 1

\* C7: an input made of N well-formed blocks, with lines that are no headers
\* around them, loads without error into N Collisions whose Types are the
\* blocks' header keywords in file order.
C7_OneCollisionPerBlock ==
    format.ok =>
        /\ outcome \notin {"error", "panic"}
        /\ outcome = "ok" =>
              /\ Len(returned) = Len(format.types)
              /\ \A i \in 1..Len(returned) : returned[i].Type = format.types[i]

C7_Witness ==
    /\ outcome = "ok"
    /\ format.ok
    /\ Len(returned) = 2
    /\ returned[1].Type = returned[2].Type
    /\ returned[1].Species = returned[2].Species
    /\ nlines > 12

\* C11: when reading the input fails after one or more blocks have been
\* parsed, the load ends with an error and no Collection.
C11_ReadErrorIsError ==
    (Finished /\ scanErr /\ Len(collisions) >= 1)
        => (outcome = "error" /\ returned = <<>>)

\* C15: LoadCrossSections terminates on every finite input, also on one
\* that ends inside a metadata section or a data section: every load
\* eventually ends.
C15_Terminates == <>Finished

\* the line the load stopped at is a line of the file with fewer tokens than
\* the block type reads from it
TooFewTokens ==
    /\ ~eof
    /\ \/ /\ pc = "params"
          /\ block.collisionType \in {ELASTIC, EFFECTIVE, EXCITATION, IONIZATION}
          /\ Len(text) = 0
       \/ /\ pc \in {"params", "params2"}
          /\ block.collisionType = ROTATION
          /\ Len(text) < 2
       \/ /\ pc = "data"
          /\ ~HasDashPrefix(text)
          /\ Len(text) < 2

\* C16: a parameter line or a data line with too few tokens (a blank line
\* in the data section included) ends the load with an error and no
\* Collection, never with an index out of range.
C16_TooFewTokensIsError ==
    (Finished /\ TooFewTokens) => (outcome = "error" /\ returned = <<>>)

\* C17: a Collision of type ELASTIC, EFFECTIVE or ATTACHMENT holds exactly
\* the points of its data section, in the order read: none dropped, none
\* prepended, whatever the first value and the energies are.
C17_TableKeptAsRead ==
    outcome = "ok" =>
        \A i \in 1..Len(returned) :
            returned[i].Type \in {ELASTIC, EFFECTIVE, ATTACHMENT}
                => returned[i].Data = rawTables[i]

C17_Witness ==
    /\ outcome = "ok"
    /\ \E i \in 1..Len(returned) :
         /\ returned[i].Type \in {ELASTIC, EFFECTIVE, ATTACHMENT}
         /\ Len(rawTables[i]) = 2
         /\ rawTables[i][1].Energy <= 0
         /\ rawTables[i][1].Value # 0

\* C18: the Info of a loaded Collision holds exactly the entries of the
\* lines of its metadata section (after the parameter line or lines, up to
\* the first separator), the later line winning; the parameter line gives
\* no entry.
C18_InfoFromMetadataSection ==
    outcome = "ok" =>
        \A i \in 1..Len(returned) : returned[i].Info = format.infos[i]

\* C18 as the code has it: the entries are those of the lines from the last
\* parameter line on, up to the first separator; the parameter line gives an
\* entry as well when it holds a colon.
C18_InfoFromParameterLineOn ==
    outcome = "ok" =>
        \A i \in 1..Len(returned) : returned[i].Info = format.infosP[i]

C18_Witness ==
    /\ outcome = "ok"
    /\ \E i \in 1..Len(returned) :
         /\ returned[i].Info # <<>>
         /\ format.infos[i] # format.infosP[i]

\* C8: every Collision of a Collection returned without error has a
\* non-empty Data.
C8_DataNonEmpty ==
    outcome = "ok" =>
        \A i \in 1..Len(returned) : Len(returned[i].Data) > 0

AboveThreshold(points, threshold) ==
    SelectSeq(points, LAMBDA p : p.Energy > threshold)

\* C9: in a loaded IONIZATION, EXCITATION or ROTATION Collision every point
\* of Data lies above Threshold, except possibly a first point
\* (Threshold, 0); and Data holds, in their order, exactly the raw points
\* above Threshold, after that first point if it was added.
C9_ThresholdTruncation ==
    outcome = "ok" =>
        \A i \in 1..Len(returned) :
            HasThreshold(returned[i].Type) =>
                LET D == returned[i].Data
                    th == returned[i].Threshold
                    zero == [Energy |-> th, Value |-> 0]
                    kept == AboveThreshold(rawTables[i], th)
                IN /\ \A j \in 1..Len(D) :
                        \/ D[j].Energy > th
                        \/ j = 1 /\ D[j] = zero
                   /\ D = kept \/ D = <<zero>> \o kept

C9_Witness ==
    /\ outcome = "ok"
    /\ \E i \in 1..Len(returned) :
          /\ returned[i].Type = EXCITATION
          /\ Len(rawTables[i]) = 2
          /\ rawTables[i][1].Energy <= returned[i].Threshold
          /\ Len(returned[i].Data) = 2
          /\ returned[i].Data[1].Energy = returned[i].Threshold
          /\ returned[i].Data[2] = rawTables[i][2]

====
